---- MODULE Spec2Model ----
(***************************************************************************)
(* Model of the annotation-to-response pipeline of utils/utils.py:         *)
(* generate_response(group, classes) scans the image directory of a        *)
(* dataset split, parses the YOLO label file of every image into polygons, *)
(* filters the images by class and returns the records sorted by filename. *)
(*                                                                         *)
(* Representation of strings.                                              *)
(*  - A file name is the sequence of its code points, so that Python's     *)
(*    case-sensitive string comparison is the lexicographic order on it.   *)
(*  - A label line is the sequence of the fields that single whitespace    *)
(*    characters delimit; an empty field "" stands for a run of            *)
(*    whitespace (leading, trailing or doubled).                           *)
(*  - The filter string is the sequence of the pieces that its commas      *)
(*    delimit; the empty string is the one piece "".                       *)
(*  - A float is its value in tenths.                                      *)
(***************************************************************************)
EXTENDS Integers, Sequences, FiniteSets, TLC

VARIABLES
    images,     \* images[g]: the entries of ./images/<g>/images
    labels,     \* labels[g]: file name -> lines, the files of ./images/<g>/labels
    hashseed,   \* the process's string hash seed (fixes the order of list(set(..)))
    group,      \* the group of the latest request
    classes,    \* the filter string of the latest request
    scan,       \* scan[g]: the order in which os.scandir reported images[g] to it
    response    \* what the latest request returned (records or an error)

vars == <<images, labels, hashseed, group, classes, scan, response>>

----------------------------------------------------------------------------
(* Bounds of the model *)

MaxImages == 2      \* entries of the image directories of the whole dataset
MaxLines == 2       \* lines of a label file
MaxCoords == 4      \* coordinate tokens of a label file

----------------------------------------------------------------------------
(* utils/constants.py *)

TEST_FILES_PREFIX == "/images/test"
TRAIN_FILES_PREFIX == "/images/train"
VALID_FILES_PREFIX == "/images/valid"

IMAGES_PREFIX == "images"
LABELS_PREFIX == "labels"

CLASSES ==
    << "elbow positive",
       "fingers positive",
       "forearm fracture",
       "humerus fracture",
       "humerus",
       "shoulder fracture",
       "wrist positive" >>

GroupName == {"all", "train", "test", "valid"}

ConcreteGroups == {"test", "train", "valid"}

----------------------------------------------------------------------------
(* Values of the Python runtime *)

None == [tag |-> "None"]

\* a str, given by the pieces its commas delimit
Str(pieces) == [tag |-> "str", pieces |-> pieces]

\* str.split(",")
SplitCommas(s) == s.pieces

\* bool(s): a str is true when it is not empty
Truthy(s) == s # None /\ s # Str(<<"">>)

\* s.strip(): what is left of s without its leading and trailing whitespace
Strip(s) ==
    IF Len(s.pieces) = 1 /\ s.pieces[1] \in {"", " ", "  "} THEN Str(<<"">>) ELSE s

Raise(e) == [tag |-> "error", error |-> e]

Value(v) == [tag |-> "value", value |-> v]

IsError(r) == r.tag = "error"

\* str.__lt__: lexicographic comparison of the code points
RECURSIVE StrLess(_, _)
StrLess(s, t) ==
    IF t = <<>> THEN FALSE
    ELSE IF s = <<>> THEN TRUE
    ELSE IF Head(s) # Head(t) THEN Head(s) < Head(t)
    ELSE StrLess(Tail(s), Tail(t))

\* str.rfind("."): the 0-based index of the last dot, -1 when there is none
RFindDot(name) ==
    LET dots == {i \in 1..Len(name) : name[i] = 46}
    IN  IF dots = {} THEN -1
        ELSE (CHOOSE i \in dots : \A j \in dots : j <= i) - 1

\* pathlib.PurePath.stem
Stem(name) ==
    LET i == RFindDot(name)
    IN  IF 0 < i /\ i < Len(name) - 1 THEN SubSeq(name, 1, i) ELSE name

\* the ".txt" of the label file name
TxtSuffix == <<46, 116, 120, 116>>

\* int(token), on the tokens of the model
IntTable ==
    ("0" :> 0) @@ ("2" :> 2) @@ ("4" :> 4) @@ ("6" :> 6) @@ ("7" :> 7)
    @@ ("-1" :> -1) @@ ("999" :> 999)

\* float(token), in tenths, on the tokens of the model
FloatTable ==
    ("0.1" :> 1) @@ ("0.2" :> 2) @@ ("0.3" :> 3) @@ ("0.4" :> 4)
    @@ ("0.5" :> 5) @@ ("0.6" :> 6)

\* list(set(xs)) of class labels: the order is the hash order of the process,
\* here the catalog order or its reverse
RECURSIVE ListOfSet(_, _, _)
ListOfSet(S, seed, i) ==
    IF i > Len(CLASSES) THEN <<>>
    ELSE LET c == IF seed = 0 THEN CLASSES[i] ELSE CLASSES[Len(CLASSES) + 1 - i]
         IN  (IF c \in S THEN <<c>> ELSE <<>>) \o ListOfSet(S, seed, i + 1)

Range(s) == {s[i] : i \in DOMAIN s}

\* list(xs): the set() forgotten
ListSet_NoSet(xs, seed) == xs

\* list(set(xs)) of a list of class labels
ListSet(xs, seed) == ListOfSet(Range(xs), seed, 1)

----------------------------------------------------------------------------
(* utils/utils.py *)

get_class_by_id(id) ==
    IF 0 <= id /\ id < Len(CLASSES) THEN Value(CLASSES[id + 1])
    ELSE IF -Len(CLASSES) <= id /\ id < 0 THEN Value(CLASSES[Len(CLASSES) + id + 1])
    ELSE Raise("IndexError")

get_class_id(line) ==
    IF Len(line) = 0 THEN Raise("IndexError")
    ELSE IF line[1] \in DOMAIN IntTable THEN Value(IntTable[line[1]])
    ELSE Raise("ValueError")

\* os.scandir(dir) filtered by is_file, in the order the OS reports
get_dir_files(entries, order) ==
    SelectSeq(order, LAMBDA x : x \in entries /\ x.is_file)

get_prefix(g) ==
    CASE g = "test" -> TEST_FILES_PREFIX
      [] g = "train" -> TRAIN_FILES_PREFIX
      [] g = "valid" -> VALID_FILES_PREFIX
      [] OTHER -> ""

is_image_class_in_filter_classes(image_classes, filter_classes) ==
    LET string_set == Range(image_classes)
        single_set == Range(SplitCommas(filter_classes))
    IN  (string_set \cap single_set) # {}

\* row.strip().split()
Split(row) == SelectSeq(row, LAMBDA f : f # "")

\* [vertices[i : i + 2] for i in range(0, len(vertices))]: the step forgotten
Pairs_Step1(vertices) ==
    [k \in 1..Len(vertices) |->
        SubSeq(vertices, k, IF k + 1 <= Len(vertices) THEN k + 1 ELSE Len(vertices))]

\* [vertices[i : i + 2] for i in range(0, len(vertices), 2)]
Pairs(vertices) ==
    [k \in 1..((Len(vertices) + 1) \div 2) |->
        SubSeq(vertices, 2 * k - 1,
               IF 2 * k <= Len(vertices) THEN 2 * k ELSE Len(vertices))]

build_polygon(row) ==
    LET parts == Split(row)
        class_idx == get_class_id(parts)
        class_label == get_class_by_id(class_idx.value)
        coords == Tail(parts)
    IN  IF IsError(class_idx) THEN class_idx
        ELSE IF IsError(class_label) THEN class_label
        ELSE IF \E i \in DOMAIN coords : coords[i] \notin DOMAIN FloatTable
             THEN Raise("ValueError")
        ELSE Value([class |-> class_label.value,
                    vertices |-> Pairs([i \in DOMAIN coords |-> FloatTable[coords[i]]])])

build_res_object(filename, image_path, cls, polygons) ==
    [filename |-> filename,
     image_path |-> image_path,
     classes |-> cls,
     polygons |-> polygons]

\* the first exception a map over xs raises, or the list of the values
MapResult(xs) ==
    IF \E i \in DOMAIN xs : IsError(xs[i])
    THEN xs[CHOOSE i \in DOMAIN xs : IsError(xs[i]) /\ \A j \in 1..(i - 1) : ~IsError(xs[j])]
    ELSE Value(xs)

\* process_image with a missing label file read as an empty one
process_image_MissingAsEmpty(image, filter_classes, g, labeldir, seed) ==
    LET prefix == get_prefix(g)
        filename == Stem(image.name)
        image_path == <<prefix, IMAGES_PREFIX, image.name>>
        image_labels_file == filename \o TxtSuffix
        content == IF image_labels_file \in DOMAIN labeldir
                   THEN labeldir[image_labels_file] ELSE <<>>
    IN  IF Len(content) = 0
        THEN Value(build_res_object(filename, image_path, <<>>, <<>>))
        ELSE
          LET built == MapResult([i \in DOMAIN content |-> build_polygon(content[i])])
              polygons == [i \in DOMAIN content |-> built.value[i].value]
              cls == ListSet([i \in DOMAIN polygons |-> polygons[i].class], seed)
          IN  IF IsError(built) THEN built
              ELSE IF /\ Truthy(filter_classes)
                      /\ Truthy(Strip(filter_classes))
                      /\ ~is_image_class_in_filter_classes(cls, filter_classes)
                   THEN Value(None)
              ELSE Value(build_res_object(filename, image_path, cls, polygons))

process_image(image, filter_classes, g, labeldir, seed) ==
    LET prefix == get_prefix(g)
        filename == Stem(image.name)
        image_path == <<prefix, IMAGES_PREFIX, image.name>>
        image_labels_file == filename \o TxtSuffix
    IN  IF image_labels_file \notin DOMAIN labeldir THEN Value(None)
        ELSE
          LET content == labeldir[image_labels_file]
          IN  IF Len(content) = 0
              THEN Value(build_res_object(filename, image_path, <<>>, <<>>))
              ELSE
                LET built == MapResult([i \in DOMAIN content |-> build_polygon(content[i])])
                    polygons == [i \in DOMAIN content |-> built.value[i].value]
                    cls == ListSet([i \in DOMAIN polygons |-> polygons[i].class], seed)
                IN  IF IsError(built) THEN built
                    ELSE IF /\ Truthy(filter_classes)
                            /\ Truthy(Strip(filter_classes))
                            /\ ~is_image_class_in_filter_classes(cls, filter_classes)
                         THEN Value(None)
                    ELSE Value(build_res_object(filename, image_path, cls, polygons))

filter_empty(data) == SelectSeq(data, LAMBDA x : x # None)

\* sorted(data, key=filename): a stable sort
RECURSIVE Insert(_, _)
Insert(sorted, x) ==
    IF sorted = <<>> THEN <<x>>
    ELSE IF StrLess(x.filename, Head(sorted).filename)
         THEN <<x>> \o sorted
         ELSE <<Head(sorted)>> \o Insert(Tail(sorted), x)

\* the data as they come: the sort forgotten
sort_by_name_Unsorted(data) == data

RECURSIVE sort_by_name(_)
sort_by_name(data) ==
    IF data = <<>> THEN <<>>
    ELSE Insert(sort_by_name(SubSeq(data, 1, Len(data) - 1)), data[Len(data)])

ProcessAll(files, filter_classes, g, labeldirs, seed) ==
    [i \in DOMAIN files |-> process_image(files[i], filter_classes, g, labeldirs[g], seed)]

Unwrap(xs) == [i \in DOMAIN xs |-> xs[i].value]

\* prepare_all_data without the valid images
prepare_all_data_NoValid(test_images, train_images, valid_images, filter_classes, labeldirs, seed) ==
    LET all_images ==
            MapResult(ProcessAll(test_images, filter_classes, "test", labeldirs, seed)
                      \o ProcessAll(train_images, filter_classes, "train", labeldirs, seed))
    IN  IF IsError(all_images) THEN all_images
        ELSE Value(sort_by_name(filter_empty(Unwrap(all_images.value))))

prepare_all_data(test_images, train_images, valid_images, filter_classes, labeldirs, seed) ==
    LET all_images ==
            MapResult(ProcessAll(test_images, filter_classes, "test", labeldirs, seed)
                      \o ProcessAll(train_images, filter_classes, "train", labeldirs, seed)
                      \o ProcessAll(valid_images, filter_classes, "valid", labeldirs, seed))
    IN  IF IsError(all_images) THEN all_images
        ELSE Value(sort_by_name(filter_empty(Unwrap(all_images.value))))

prepare_group_data(filter_classes, g, files, labeldirs, seed) ==
    LET processed_images == MapResult(ProcessAll(files, filter_classes, g, labeldirs, seed))
    IN  IF IsError(processed_images) THEN processed_images
        ELSE Value(sort_by_name(filter_empty(Unwrap(processed_images.value))))

\* order[g] is the order in which os.scandir reports the entries of group g
generate_response(g, filter_classes, imagedirs, labeldirs, seed, order) ==
    IF g = "all"
    THEN prepare_all_data(get_dir_files(imagedirs["test"], order["test"]),
                          get_dir_files(imagedirs["train"], order["train"]),
                          get_dir_files(imagedirs["valid"], order["valid"]),
                          filter_classes, labeldirs, seed)
    ELSE prepare_group_data(filter_classes, g,
                            get_dir_files(imagedirs[g], order[g]), labeldirs, seed)

----------------------------------------------------------------------------
(* The datasets and requests of the model *)

\* "B.jpg", "a.jpg", "a.png": two stems that differ in case, one stem twice
ImageNames ==
    { <<66, 46, 106, 112, 103>>,
      <<97, 46, 106, 112, 103>>,
      <<97, 46, 112, 110, 103>> }

File(name) == [name |-> name, is_file |-> TRUE]

Dir(name) == [name |-> name, is_file |-> FALSE]

\* the entries an image directory may hold: the image files and a directory "d"
Entries == {File(n) : n \in ImageNames} \cup {Dir(<<100>>)}

\* "2", "6", "-1": two catalog indices (6 is the last one) and a negative index
IndexTokens == {"2", "6", "-1"}

\* the i-th coordinate token of a label file: "0.1", "0.2", ...
CoordToken(i) == <<"0.1", "0.2", "0.3", "0.4", "0.5", "0.6">>[((i - 1) % 6) + 1]

RECURSIVE SumTo(_, _)
SumTo(counts, k) == IF k = 0 THEN 0 ELSE counts[k] + SumTo(counts, k - 1)

\* the label file whose k-th line is "<idxs[k]> x y ..." with counts[k] coordinates
LabelFile(idxs, counts) ==
    [k \in DOMAIN idxs |->
        <<idxs[k]>> \o [i \in 1..counts[k] |-> CoordToken(SumTo(counts, k - 1) + i)]]

\* a line with extra whitespace, a blank line, lines with an index past the
\* end of the catalog: "7", "999 0.1 0.2"
ExtraContents ==
    { << <<"", "6", "", "0.1", "0.2", "">> >>,
      << <<"2", "0.1", "0.2">>, <<"">> >>,
      << <<"7">> >>,
      << <<"2", "0.1", "0.2">>, <<"7", "0.3", "0.4">> >>,
      << <<"999", "0.1", "0.2">> >> }

\* every label file of at most MaxLines lines and MaxCoords coordinate tokens
Contents ==
    UNION { { LabelFile(idxs, counts) :
                idxs \in [1..n -> IndexTokens],
                counts \in {c \in [1..n -> 0..MaxCoords] : SumTo(c, n) <= MaxCoords} }
            : n \in 0..MaxLines }
    \cup ExtraContents

\* the label files of the datasets with several images
SimpleContents ==
    { <<>>,
      << <<"4", "0.1", "0.2">>, <<"2", "0.3", "0.4">> >> }

\* None, "", " ", "forearm fracture", "elbow positive,humerus"
Filters ==
    { None, Str(<<"">>), Str(<<" ">>), Str(<<"forearm fracture">>),
      Str(<<"elbow positive", "humerus">>) }

LabelNames(entries) == {Stem(e.name) \o TxtSuffix : e \in {x \in entries : x.is_file}}

LabelDirs(entries, contents) == UNION {[D -> contents] : D \in SUBSET LabelNames(entries)}

\* the orders in which a directory scan may report the entries
Orders(S) ==
    {s \in [1..Cardinality(S) -> S] : \A i, j \in DOMAIN s : s[i] = s[j] => i = j}

NoRequest == [tag |-> "NoRequest"]

Pending == [tag |-> "Pending"]

NoScan == [g \in ConcreteGroups |-> <<>>]

\* a dataset of at most MaxImages directory entries spread over the three groups
InitDataset ==
    \E slots \in {s \in SUBSET (ConcreteGroups \X Entries) : Cardinality(s) <= MaxImages} :
        /\ images = [g \in ConcreteGroups |-> {e \in Entries : <<g, e>> \in slots}]
        /\ \E test_labels \in LabelDirs(images["test"], SimpleContents),
              train_labels \in LabelDirs(images["train"], SimpleContents),
              valid_labels \in LabelDirs(images["valid"], SimpleContents) :
                labels = [g \in ConcreteGroups |->
                            CASE g = "test" -> test_labels
                              [] g = "train" -> train_labels
                              [] g = "valid" -> valid_labels]

\* a dataset of one train image, "a.jpg", and its label file
InitLabelFile ==
    /\ images = [g \in ConcreteGroups |->
                    IF g = "train" THEN {File(<<97, 46, 106, 112, 103>>)} ELSE {}]
    /\ \E content \in Contents :
          labels = [g \in ConcreteGroups |->
                      IF g = "train" THEN (<<97, 46, 116, 120, 116>> :> content) ELSE <<>>]

Init ==
    /\ InitDataset \/ InitLabelFile
    /\ hashseed \in {0, 1}
    /\ group = "all"
    /\ classes = None
    /\ scan = NoScan
    /\ response = NoRequest

\* a client sends GET /data/{group}?classes=...
Request(g, filter_classes) ==
    /\ response # Pending
    /\ group' = g
    /\ classes' = filter_classes
    /\ scan' = NoScan
    /\ response' = Pending
    /\ UNCHANGED <<images, labels, hashseed>>

\* main.py: the handler of GET /data/{group}
get_test_data(order) ==
    /\ response = Pending
    /\ scan' = order
    /\ response' = generate_response(group, classes, images, labels, hashseed, order)
    /\ UNCHANGED <<images, labels, hashseed, group, classes>>

Next ==
    \/ \E g \in GroupName, filter_classes \in Filters : Request(g, filter_classes)
    \/ \E test_scan \in Orders(images["test"]),
          train_scan \in Orders(images["train"]),
          valid_scan \in Orders(images["valid"]) :
            get_test_data([h \in ConcreteGroups |->
                              CASE h = "test" -> test_scan
                                [] h = "train" -> train_scan
                                [] h = "valid" -> valid_scan])

Spec == Init /\ [][Next]_vars

----------------------------------------------------------------------------
(* What the claims speak of *)

Ok == response.tag = "value"

Failed == response.tag = "error"

\* the records of the response
Body == response.value

\* the groups whose directories the request reads
Scanned == IF group = "all" THEN ConcreteGroups ELSE {group}

Files(h) == {e \in images[h] : e.is_file}

LabelName(e) == Stem(e.name) \o TxtSuffix

HasLabel(h, e) == LabelName(e) \in DOMAIN labels[h]

Lines(h, e) == labels[h][LabelName(e)]

PathOf(h, e) == <<get_prefix(h), IMAGES_PREFIX, e.name>>

\* the response holds a record of image e of group h
Included(h, e) == \E i \in DOMAIN Body : Body[i].image_path = PathOf(h, e)

RecordOf(h, e) == Body[CHOOSE i \in DOMAIN Body : Body[i].image_path = PathOf(h, e)]

\* the filter string is absent, empty or whitespace-only
Blank(f) == f = None \/ f \in {Str(<<"">>), Str(<<" ">>)}

\* the tokens of a label line
Tokens(row) == SelectSeq(row, LAMBDA f : f # "")

OddCoords(row) == Len(Tokens(row)) >= 1 /\ (Len(Tokens(row)) - 1) % 2 = 1

IndexOutside(row) ==
    /\ Len(Tokens(row)) >= 1
    /\ Tokens(row)[1] \in DOMAIN IntTable
    /\ IntTable[Tokens(row)[1]] \notin 0..6

WellFormed(row) ==
    /\ Len(Tokens(row)) >= 1
    /\ Tokens(row)[1] \in DOMAIN IntTable
    /\ IntTable[Tokens(row)[1]] \in 0..6
    /\ (Len(Tokens(row)) - 1) % 2 = 0
    /\ \A i \in 2..Len(Tokens(row)) : Tokens(row)[i] \in DOMAIN FloatTable

\* the classes of the lines of a label file, negative indices counted from the end
ClassesOf(content) ==
    {CLASSES[(IntTable[Tokens(content[k])[1]] % 7) + 1] : k \in DOMAIN content}

\* the files in the order the request met them
Met ==
    IF group = "all"
    THEN [i \in DOMAIN scan["test"] |-> <<"test", scan["test"][i]>>]
         \o [i \in DOMAIN scan["train"] |-> <<"train", scan["train"][i]>>]
         \o [i \in DOMAIN scan["valid"] |-> <<"valid", scan["valid"][i]>>]
    ELSE [i \in DOMAIN scan[group] |-> <<group, scan[group][i]>>]

MetAt(r) == CHOOSE i \in DOMAIN Met : PathOf(Met[i][1], Met[i][2]) = r.image_path

----------------------------------------------------------------------------
(* C1: a record of a parsed image is in the response exactly when the filter
   is blank or the classes of the image meet the comma-separated pieces of
   the filter. *)
C1_FilterIff ==
    Ok => \A h \in Scanned : \A e \in Files(h) :
            HasLabel(h, e) =>
                (Included(h, e) <=>
                    \/ Blank(classes)
                    \/ ClassesOf(Lines(h, e)) \cap Range(classes.pieces) # {})

(* C2: an image with an empty label file gives a record without classes and
   polygons, which is in the response under a blank filter and in no
   response under a non-blank one. *)
C2_EmptyLabelFile ==
    Ok => \A h \in Scanned : \A e \in Files(h) :
            (HasLabel(h, e) /\ Lines(h, e) = <<>>) =>
                IF Blank(classes)
                THEN /\ Included(h, e)
                     /\ RecordOf(h, e).classes = <<>>
                     /\ RecordOf(h, e).polygons = <<>>
                ELSE ~Included(h, e)

(* C3: a label line with an odd number of coordinate tokens makes the whole
   request fail, and every vertex of a returned polygon is a pair. *)
C3_OddCoordsFail ==
    /\ (Ok \/ Failed) =>
          ((\E h \in Scanned : \E e \in Files(h) :
                HasLabel(h, e) /\ \E k \in DOMAIN Lines(h, e) : OddCoords(Lines(h, e)[k]))
            => Failed)
    /\ Ok => \A i \in DOMAIN Body : \A k \in DOMAIN Body[i].polygons :
                \A v \in DOMAIN Body[i].polygons[k].vertices :
                    Len(Body[i].polygons[k].vertices[v]) = 2

(* C4: a label line whose class index is an integer outside 0..6 makes the
   request fail; no polygon is built for it. *)
C4_IndexOutsideFail ==
    (Ok \/ Failed) =>
        ((\E h \in Scanned : \E e \in Files(h) :
              HasLabel(h, e) /\ \E k \in DOMAIN Lines(h, e) : IndexOutside(Lines(h, e)[k]))
          => Failed)

(* C5: in every record of every response the classes list has no duplicates
   and is, as a set, the set of the classes of the record's polygons. *)
C5_ClassesArePolygonClasses ==
    Ok => \A i \in DOMAIN Body :
            /\ \A a, b \in DOMAIN Body[i].classes :
                  Body[i].classes[a] = Body[i].classes[b] => a = b
            /\ Range(Body[i].classes)
                  = {Body[i].polygons[k].class : k \in DOMAIN Body[i].polygons}

C5_Witness ==
    /\ Ok
    /\ \E i \in DOMAIN Body :
          /\ Len(Body[i].polygons) = 2
          /\ Body[i].polygons[1].class = Body[i].polygons[2].class
          /\ Len(Body[i].classes) = 1

(* C6: an image file without a label file is processed to None without an
   error, and no response holds a record of it. *)
C6_NoLabelNoRecord ==
    \A h \in Scanned : \A e \in Files(h) :
        ~HasLabel(h, e) =>
            /\ process_image(e, classes, h, labels[h], hashseed) = Value(None)
            /\ Ok => ~Included(h, e)

C6_Witness ==
    /\ Ok
    /\ Len(Body) >= 1
    /\ \E h \in Scanned : \E e \in Files(h) : ~HasLabel(h, e)

(* C7: the response is sorted ascending by filename, records of equal
   filename are in the order in which the request met their images, and the
   records are exactly the records the images were processed to. *)
C7_SortedStable ==
    Ok =>
        /\ \A i, j \in DOMAIN Body : i < j => ~StrLess(Body[j].filename, Body[i].filename)
        /\ \A i, j \in DOMAIN Body :
              (i < j /\ Body[i].filename = Body[j].filename) => MetAt(Body[i]) < MetAt(Body[j])
        /\ \A i, j \in DOMAIN Body : Body[i] = Body[j] => i = j
        /\ Range(Body)
              = {process_image(Met[i][2], classes, Met[i][1], labels[Met[i][1]], hashseed).value :
                    i \in DOMAIN Met} \ {None}

C7_Witness ==
    /\ Ok
    /\ Len(Body) = 2
    /\ MetAt(Body[2]) < MetAt(Body[1])

\* the response of a concrete group to the request without filter
Alone(h) == generate_response(h, None, images, labels, hashseed, scan)

\* the records of the response that come from group h
From(h) == SelectSeq(Body, LAMBDA r : r.image_path[1] = get_prefix(h))

DisjointFilenames ==
    \A h1, h2 \in ConcreteGroups : \A e1 \in Files(h1), e2 \in Files(h2) :
        h1 # h2 => Stem(e1.name) # Stem(e2.name)

(* C8: with filenames disjoint across the groups, the response for all
   without filter is sorted by filename, holds the records of the three
   groups' own responses, each once and unchanged, and nothing else. *)
C8_AllIsUnion ==
    (Ok /\ group = "all" /\ classes = None /\ DisjointFilenames) =>
        /\ \A h \in ConcreteGroups : Alone(h).tag = "value" /\ From(h) = Alone(h).value
        /\ \A i \in DOMAIN Body : \E h \in ConcreteGroups : Body[i].image_path[1] = get_prefix(h)
        /\ \A i, j \in DOMAIN Body : Body[i] = Body[j] => i = j
        /\ \A i, j \in DOMAIN Body : i < j => ~StrLess(Body[j].filename, Body[i].filename)

C8_Witness ==
    /\ Ok /\ group = "all" /\ classes = None /\ DisjointFilenames
    /\ Len(Body) = 2
    /\ Len(From("valid")) = 1

(* C9: the response does not depend on the order in which the directory
   scans report the image files. *)
C9_ScanOrderIrrelevant ==
    (Ok \/ Failed) =>
        \A t \in Orders(images["test"]), r \in Orders(images["train"]),
           v \in Orders(images["valid"]) :
            generate_response(group, classes, images, labels, hashseed,
                              [h \in ConcreteGroups |->
                                  CASE h = "test" -> t [] h = "train" -> r [] h = "valid" -> v])
                = response

(* C10: the record of an image with a label file of n >= 1 well-formed lines
   has n polygons in line order; the k-th has the catalog class of the
   line's index and the line's coordinates paired in order; this is so
   whatever the filter is. *)
C10_PolygonsOfLines ==
    Ok => \A h \in Scanned : \A e \in Files(h) :
            (/\ Included(h, e)
             /\ Lines(h, e) # <<>>
             /\ \A k \in DOMAIN Lines(h, e) : WellFormed(Lines(h, e)[k])) =>
                LET polygons == RecordOf(h, e).polygons
                IN  /\ Len(polygons) = Len(Lines(h, e))
                    /\ \A k \in DOMAIN polygons :
                          LET tok == Tokens(Lines(h, e)[k])
                              m == (Len(tok) - 1) \div 2
                          IN  /\ polygons[k].class = CLASSES[IntTable[tok[1]] + 1]
                              /\ Len(polygons[k].vertices) = m
                              /\ \A j \in 1..m :
                                    polygons[k].vertices[j]
                                        = <<FloatTable[tok[2 * j]], FloatTable[tok[2 * j + 1]]>>

C10_Witness ==
    /\ Ok
    /\ ~Blank(classes)
    /\ \E i \in DOMAIN Body :
          /\ Len(Body[i].polygons) = 2
          /\ Body[i].polygons[1].class # Body[i].polygons[2].class
          /\ \E k \in DOMAIN Body[i].polygons : Len(Body[i].polygons[k].vertices) = 2
          /\ \A k \in DOMAIN Body[i].polygons : \A v \in DOMAIN Body[i].polygons[k].vertices :
                Len(Body[i].polygons[k].vertices[v]) = 2

====
